---- MODULE Spec2Model ----
(***************************************************************************)
(* Model of package rwc (github.com/tech10/rwc): ResReadWriteCloser, a     *)
(* resettable io.ReadWriteCloser.  Several goroutines call Read, Write,    *)
(* Close, Reset, ResetCount and RWC on one wrapper.  Every statement of    *)
(* rwc.go that touches shared state (r.mu, r.rwc, r.count, the wrapped     *)
(* resources) is one step, so that every interleaving of the lock-free     *)
(* loads of r.count with the critical section of Reset is explored.        *)
(***************************************************************************)
EXTENDS Integers, Sequences, FiniteSets, TLC

\* ------------------------------------------------------------------ bounds
NumThreads == 2     \* goroutines calling the wrapper
NumResources == 2   \* distinct io.ReadWriteCloser values besides the wrapper
MaxCalls == 2       \* calls started on the wrapper in one behaviour
MaxN == 1           \* largest byte count an underlying read/write returns

\* --------------------------------------------------------------- constants
Nil == 0                    \* the nil io.ReadWriteCloser
Self == 0 - 1               \* the wrapper itself, passed as an io.ReadWriteCloser

Threads == 1..NumThreads
Resources == 1..NumResources
NoThread == 0

\* error values (errors.go and the outcomes of the wrapped resource)
ErrEqual == "ErrEqual"
ErrEqualToSelf == "ErrEqualToSelf"
ErrResetNil == "ErrResetNil"
ErrRWCReset == "ErrRWCReset"
ErrClosedPipe == "ErrClosedPipe"
NoErr == "none"             \* no error value assigned yet (not Go's nil)
OK == "nil"                 \* Go's nil error

VARIABLES
    wrapper,     \* "none" before NewResReadWriteCloser, "live" after it, "panicked" if it panicked
    rwc,         \* r.rwc
    count,       \* r.count
    writer,      \* r.mu: the goroutine holding the exclusive lock, or NoThread
    readers,     \* r.mu: the goroutines holding the shared lock
    closed,      \* closed[x]: Close has been invoked on resource x (mockRWC.closed)
    pc,          \* pc[t]: where goroutine t is inside its call ("idle" outside)
    op,          \* the method t is executing ("none" outside a call)
    newRWC,      \* Reset's argument newRWC
    closeOld,    \* Reset's argument closeOld
    startCount,  \* Read/Write: local startCount
    reader,      \* Read/Write: local reader / writer (the snapshotted resource)
    n,           \* Read/Write: local n returned by the underlying call
    err,         \* local err: outcome of the underlying call (Reset: pending result)
    old,         \* Reset: local old
    ret,         \* the value t's call is about to return (set at the "_ret" locations)
    \* history variables, read by no action's guard
    calls,       \* calls started so far
    used,        \* goroutines that have started a call so far
    known,       \* resources handed to the wrapper so far
    succ,        \* Resets that have returned nil so far
    lastNew,     \* newRWC of the last Reset that returned nil (Nil if none)
    race,        \* phases of t's Read/Write in which a Reset incremented r.count
    swapIn,      \* a Reset assigned r.rwc between t's snapshot of r.count and its final check
    resetBefore, \* a Reset had returned nil before t's call began
    quiet,       \* no Reset was executing when t's call began
    begun,       \* phases of t's Read/Write/Close in which a Reset call went past its switch
    ended,       \* phases of t's Read/Write/Close in which a Reset returned nil
    target,      \* the resource on which t's call invoked read/write/close (Nil if none)
    closedBy,    \* the resources on which t's call invoked Close, in order
    startRWC,    \* r.rwc at the moment t's Read/Write loaded startCount
    swaps        \* assignments r.rwc = newRWC made by Resets so far

locals == <<op, newRWC, closeOld, startCount, reader, n, err, old, ret>>
ghosts == <<calls, used, known, succ, lastNew, race, swapIn, resetBefore, quiet, begun, ended, target, closedBy,
           startRWC, swaps>>
shared == <<wrapper, rwc, count, writer, readers, closed>>
vars == <<wrapper, rwc, count, writer, readers, closed, pc, op, newRWC, closeOld,
          startCount, reader, n, err, old, ret, calls, used, known, succ, lastNew, race, swapIn,
          resetBefore, quiet, begun, ended, target, closedBy, startRWC, swaps>>

NoRet == [op |-> "none", n |-> 0, err |-> NoErr, res |-> Nil]

Init ==
    /\ wrapper = "none"
    /\ rwc = Nil
    /\ count = 0
    /\ writer = NoThread
    /\ readers = {}
    /\ closed = [x \in Resources |-> FALSE]
    /\ pc = [t \in Threads |-> "idle"]
    /\ op = [t \in Threads |-> "none"]
    /\ newRWC = [t \in Threads |-> Nil]
    /\ closeOld = [t \in Threads |-> FALSE]
    /\ startCount = [t \in Threads |-> 0]
    /\ reader = [t \in Threads |-> Nil]
    /\ n = [t \in Threads |-> 0]
    /\ err = [t \in Threads |-> NoErr]
    /\ old = [t \in Threads |-> Nil]
    /\ ret = [t \in Threads |-> NoRet]
    /\ calls = 0
    /\ used = 0
    /\ known = 0
    /\ succ = 0
    /\ lastNew = Nil
    /\ race = [t \in Threads |-> {}]
    /\ swapIn = [t \in Threads |-> FALSE]
    /\ resetBefore = [t \in Threads |-> FALSE]
    /\ quiet = [t \in Threads |-> FALSE]
    /\ begun = [t \in Threads |-> {}]
    /\ ended = [t \in Threads |-> {}]
    /\ target = [t \in Threads |-> Nil]
    /\ closedBy = [t \in Threads |-> <<>>]
    /\ startRWC = [t \in Threads |-> Nil]
    /\ swaps = 0

\* NewResReadWriteCloser without the nil check.
NewResReadWriteCloserNoPanic(x) ==
    /\ wrapper = "none"
    /\ wrapper' = "live"
    /\ rwc' = x
    /\ known' = IF x = Nil THEN known ELSE x
    /\ UNCHANGED <<count, writer, readers, closed, pc>>
    /\ UNCHANGED locals
    /\ UNCHANGED <<calls, used, succ, lastNew, race, swapIn, resetBefore, quiet, begun, ended, target, closedBy, startRWC, swaps>>

\* NewResReadWriteCloser(x): panics on nil, otherwise the wrapper holds x.
NewResReadWriteCloser(x) ==
    /\ wrapper = "none"
    /\ IF x = Nil
         THEN /\ wrapper' = "panicked"
              /\ rwc' = rwc
         ELSE /\ wrapper' = "live"
              /\ rwc' = x
    /\ known' = IF x = Nil THEN known ELSE x
    /\ UNCHANGED <<count, writer, readers, closed, pc>>
    /\ UNCHANGED locals
    /\ UNCHANGED <<calls, used, succ, lastNew, race, swapIn, resetBefore, quiet, begun, ended, target, closedBy, startRWC, swaps>>


\* ------------------------------------------------------------ sync.RWMutex
\* r.mu.RLock() returns when no goroutine holds the exclusive lock and none is
\* blocked in r.mu.Lock() (sync.RWMutex: a blocked Lock excludes new readers).
CanRLock == writer = NoThread /\ \A u \in Threads : pc[u] # "rs_lock"
\* r.mu.Lock() returns when nobody holds the lock in either mode.
CanLock == writer = NoThread /\ readers = {}

\* ------------------------------------------------- the wrapped resources
\* The outcomes of a resource's Read or Write: a closed mockRWC returns
\* (0, io.ErrClosedPipe); an open one any count with nil, or with io.EOF
\* (Read) or an I/O error (Write).
UnderlyingErrs(o) == IF o = "Read" THEN {OK, "EOF"} ELSE {OK, "ErrIO"}
Underlying(o, x) ==
    IF closed[x] THEN {<<0, ErrClosedPipe>>}
    ELSE (0..MaxN) \X UnderlyingErrs(o)
\* The outcomes of a resource's Close.
CloseErrs == {OK, "ErrClose"}

\* ------------------------------------------------------ history bookkeeping
ResetRunning == \E u \in Threads : pc[u] \in {"rs_lock", "rs_swap", "rs_add", "rs_close", "rs_ret"}
\* the phase of a Read/Write, counted from its snapshot of r.count (one phase
\* for a Close and for a ResetCount)
Phase(t) ==
    CASE pc[t] \in {"rw_rlock", "rw_runlock", "rw_pre"} -> {"pre"}
      [] pc[t] = "rw_io" -> {"io"}
      [] pc[t] = "rw_post" -> {"post"}
      [] pc[t] = "rw_ret" -> {"ret"}
      [] pc[t] \in {"cl_rlock", "cl_close", "cl_ret"} -> {"close"}
      [] pc[t] = "rc_ret" -> {"count"}
      [] OTHER -> {}
InWindow(t) == pc[t] \in {"rw_rlock", "rw_runlock", "rw_pre", "rw_io", "rw_post"}

Result(o, k, e, x) == [op |-> o, n |-> k, err |-> e, res |-> x]

\* A call of method o begins on goroutine t.  Goroutines are interchangeable:
\* they are numbered in the order of their first call.
BeginCall(t, o) ==
    /\ wrapper = "live"
    /\ pc[t] = "idle"
    /\ calls < MaxCalls
    /\ t <= used + 1
    /\ calls' = calls + 1
    /\ used' = IF t > used THEN t ELSE used
    /\ op' = [op EXCEPT ![t] = o]
    /\ resetBefore' = [resetBefore EXCEPT ![t] = succ > 0]
    /\ UNCHANGED shared
    /\ UNCHANGED <<reader, n, err, old>>
    /\ UNCHANGED <<succ, lastNew, race, swapIn, ended, target, closedBy, swaps>>

\* The call returns ret[t] to its caller; its frame is gone.
EndCall(t) ==
    /\ pc' = [pc EXCEPT ![t] = "idle"]
    /\ op' = [op EXCEPT ![t] = "none"]
    /\ newRWC' = [newRWC EXCEPT ![t] = Nil]
    /\ closeOld' = [closeOld EXCEPT ![t] = FALSE]
    /\ startCount' = [startCount EXCEPT ![t] = 0]
    /\ reader' = [reader EXCEPT ![t] = Nil]
    /\ n' = [n EXCEPT ![t] = 0]
    /\ err' = [err EXCEPT ![t] = NoErr]
    /\ old' = [old EXCEPT ![t] = Nil]
    /\ ret' = [ret EXCEPT ![t] = NoRet]
    /\ race' = [race EXCEPT ![t] = {}]
    /\ swapIn' = [swapIn EXCEPT ![t] = FALSE]
    /\ resetBefore' = [resetBefore EXCEPT ![t] = FALSE]
    /\ quiet' = [quiet EXCEPT ![t] = FALSE]
    /\ begun' = [begun EXCEPT ![t] = {}]
    /\ target' = [target EXCEPT ![t] = Nil]
    /\ closedBy' = [closedBy EXCEPT ![t] = <<>>]
    /\ startRWC' = [startRWC EXCEPT ![t] = Nil]
    /\ UNCHANGED <<wrapper, rwc, count, closed, calls, used, known, swaps>>

\* ------------------------------------------------------------ Read, Write
\* startCount := r.count.Load()
CallRW(t, o) ==
    /\ BeginCall(t, o)
    /\ startCount' = [startCount EXCEPT ![t] = count]
    /\ startRWC' = [startRWC EXCEPT ![t] = rwc]
    /\ pc' = [pc EXCEPT ![t] = "rw_rlock"]
    /\ quiet' = [quiet EXCEPT ![t] = ~ResetRunning]
    /\ UNCHANGED <<newRWC, closeOld, ret, begun, known>>

CallRead(t) == CallRW(t, "Read")
CallWrite(t) == CallRW(t, "Write")

\* r.mu.RLock()
RWRLock(t) ==
    /\ pc[t] = "rw_rlock"
    /\ CanRLock
    /\ readers' = readers \cup {t}
    /\ pc' = [pc EXCEPT ![t] = "rw_runlock"]
    /\ UNCHANGED <<wrapper, rwc, count, writer, closed>>
    /\ UNCHANGED locals
    /\ UNCHANGED ghosts

\* RWSnapshot without r.mu.RUnlock(): the shared lock is kept during the call.
RWSnapshotKeepsLock(t) ==
    /\ pc[t] = "rw_runlock"
    /\ reader' = [reader EXCEPT ![t] = rwc]
    /\ readers' = readers
    /\ pc' = [pc EXCEPT ![t] = "rw_pre"]
    /\ UNCHANGED <<wrapper, rwc, count, writer, closed>>
    /\ UNCHANGED <<op, newRWC, closeOld, startCount, n, err, old, ret>>
    /\ UNCHANGED ghosts

\* reader := r.rwc; r.mu.RUnlock()
RWSnapshot(t) ==
    /\ pc[t] = "rw_runlock"
    /\ reader' = [reader EXCEPT ![t] = rwc]
    /\ readers' = readers \ {t}
    /\ pc' = [pc EXCEPT ![t] = "rw_pre"]
    /\ UNCHANGED <<wrapper, rwc, count, writer, closed>>
    /\ UNCHANGED <<op, newRWC, closeOld, startCount, n, err, old, ret>>
    /\ UNCHANGED ghosts

\* RWPreCheck without the comparison: the underlying call is always invoked.
RWPreCheckSkipped(t) ==
    /\ pc[t] = "rw_pre"
    /\ ret' = ret
    /\ pc' = [pc EXCEPT ![t] = "rw_io"]
    /\ target' = [target EXCEPT ![t] = reader[t]]
    /\ UNCHANGED shared
    /\ UNCHANGED <<op, newRWC, closeOld, startCount, reader, n, err, old>>
    /\ UNCHANGED <<calls, used, known, succ, lastNew, race, swapIn, resetBefore, quiet, begun, ended, closedBy, startRWC, swaps>>

\* RWPreCheck invoking r.rwc.Read(p) on the field instead of the snapshot.
RWPreCheckInvokesCurrent(t) ==
    /\ pc[t] = "rw_pre"
    /\ IF startCount[t] # count
         THEN /\ ret' = [ret EXCEPT ![t] = Result(op[t], 0, ErrRWCReset, Nil)]
              /\ pc' = [pc EXCEPT ![t] = "rw_ret"]
              /\ target' = target
         ELSE /\ ret' = ret
              /\ pc' = [pc EXCEPT ![t] = "rw_io"]
              /\ target' = [target EXCEPT ![t] = rwc]
    /\ UNCHANGED shared
    /\ UNCHANGED <<op, newRWC, closeOld, startCount, reader, n, err, old>>
    /\ UNCHANGED <<calls, used, known, succ, lastNew, race, swapIn, resetBefore, quiet, begun, ended, closedBy, startRWC, swaps>>

\* RWPreCheck made after the underlying call was invoked: on a mismatch the
\* resource has been touched and (0, ErrRWCReset) is returned.
RWPreCheckInvokesFirst(t) ==
    /\ pc[t] = "rw_pre"
    /\ target' = [target EXCEPT ![t] = reader[t]]
    /\ IF startCount[t] # count
         THEN /\ ret' = [ret EXCEPT ![t] = Result(op[t], 0, ErrRWCReset, Nil)]
              /\ pc' = [pc EXCEPT ![t] = "rw_ret"]
         ELSE /\ ret' = ret
              /\ pc' = [pc EXCEPT ![t] = "rw_io"]
    /\ UNCHANGED shared
    /\ UNCHANGED <<op, newRWC, closeOld, startCount, reader, n, err, old>>
    /\ UNCHANGED <<calls, used, known, succ, lastNew, race, swapIn, resetBefore, quiet, begun, ended, closedBy, startRWC, swaps>>

\* if startCount != r.count.Load() { return 0, ErrRWCReset }; otherwise the
\* underlying reader.Read(p) / writer.Write(p) is invoked.
RWPreCheck(t) ==
    /\ pc[t] = "rw_pre"
    /\ IF startCount[t] # count
         THEN /\ ret' = [ret EXCEPT ![t] = Result(op[t], 0, ErrRWCReset, Nil)]
              /\ pc' = [pc EXCEPT ![t] = "rw_ret"]
              /\ target' = target
         ELSE /\ ret' = ret
              /\ pc' = [pc EXCEPT ![t] = "rw_io"]
              /\ target' = [target EXCEPT ![t] = reader[t]]
    /\ UNCHANGED shared
    /\ UNCHANGED <<op, newRWC, closeOld, startCount, reader, n, err, old>>
    /\ UNCHANGED <<calls, used, known, succ, lastNew, race, swapIn, resetBefore, quiet, begun, ended, closedBy, startRWC, swaps>>

\* n, err := reader.Read(p)  /  n, err := writer.Write(p): the call returns
RWUnderlying(t) ==
    /\ pc[t] = "rw_io"
    /\ \E r \in Underlying(op[t], reader[t]) :
         /\ n' = [n EXCEPT ![t] = r[1]]
         /\ err' = [err EXCEPT ![t] = r[2]]
    /\ pc' = [pc EXCEPT ![t] = "rw_post"]
    /\ UNCHANGED shared
    /\ UNCHANGED <<op, newRWC, closeOld, startCount, reader, old, ret>>
    /\ UNCHANGED ghosts

\* RWPostCheck with the final comparison changed: e is the error returned and
\* k the count returned when the comparison reports a reset.
RWPostCheckAs(t, reset, k) ==
    /\ pc[t] = "rw_post"
    /\ ret' = [ret EXCEPT ![t] =
                 IF reset THEN Result(op[t], k, ErrRWCReset, Nil)
                 ELSE Result(op[t], n[t], err[t], Nil)]
    /\ pc' = [pc EXCEPT ![t] = "rw_ret"]
    /\ UNCHANGED shared
    /\ UNCHANGED <<op, newRWC, closeOld, startCount, reader, n, err, old>>
    /\ UNCHANGED ghosts
\* ... no comparison at all: return n, err
RWPostCheckSkipped(t) == RWPostCheckAs(t, FALSE, 0)
\* ... the byte count is dropped when a reset is reported: return 0, ErrRWCReset
RWPostCheckDropsCount(t) == RWPostCheckAs(t, startCount[t] # count, 0)
\* ... the generation is compared with 0 instead of startCount
RWPostCheckAgainstZero(t) == RWPostCheckAs(t, count # 0, n[t])

\* if startCount != r.count.Load() { return n, ErrRWCReset }; return n, err
RWPostCheck(t) ==
    /\ pc[t] = "rw_post"
    /\ ret' = [ret EXCEPT ![t] =
                 Result(op[t], n[t], IF startCount[t] # count THEN ErrRWCReset ELSE err[t], Nil)]
    /\ pc' = [pc EXCEPT ![t] = "rw_ret"]
    /\ UNCHANGED shared
    /\ UNCHANGED <<op, newRWC, closeOld, startCount, reader, n, err, old>>
    /\ UNCHANGED ghosts

\* the return statement hands the pair to the caller
RWReturn(t) ==
    /\ pc[t] = "rw_ret"
    /\ EndCall(t)
    /\ ended' = [ended EXCEPT ![t] = {}]
    /\ UNCHANGED <<writer, readers, succ, lastNew>>


\* ------------------------------------------------------------------ Close
CallClose(t) ==
    /\ BeginCall(t, "Close")
    /\ pc' = [pc EXCEPT ![t] = "cl_rlock"]
    /\ quiet' = [quiet EXCEPT ![t] = ~ResetRunning]
    /\ UNCHANGED <<newRWC, closeOld, startCount, ret, begun, known, startRWC>>

\* CloseRLock without r.mu.RLock(): Close goes on without the shared lock.
CloseRLockSkipped(t) ==
    /\ pc[t] = "cl_rlock"
    /\ readers' = readers
    /\ pc' = [pc EXCEPT ![t] = "cl_close"]
    /\ UNCHANGED <<wrapper, rwc, count, writer, closed>>
    /\ UNCHANGED locals
    /\ UNCHANGED ghosts

\* r.mu.RLock(); defer r.mu.RUnlock()
CloseRLock(t) ==
    /\ pc[t] = "cl_rlock"
    /\ CanRLock
    /\ readers' = readers \cup {t}
    /\ pc' = [pc EXCEPT ![t] = "cl_close"]
    /\ UNCHANGED <<wrapper, rwc, count, writer, closed>>
    /\ UNCHANGED locals
    /\ UNCHANGED ghosts

\* CloseUnderlying incrementing the generation, so that calls in flight would
\* report the close as a reset.
CloseUnderlyingBumpsCount(t) ==
    /\ pc[t] = "cl_close"
    /\ \E e \in CloseErrs :
         /\ err' = [err EXCEPT ![t] = e]
         /\ ret' = [ret EXCEPT ![t] = Result("Close", 0, e, Nil)]
    /\ count' = count + 1
    /\ closed' = [closed EXCEPT ![rwc] = TRUE]
    /\ target' = [target EXCEPT ![t] = rwc]
    /\ closedBy' = [closedBy EXCEPT ![t] = Append(@, rwc)]
    /\ pc' = [pc EXCEPT ![t] = "cl_ret"]
    /\ UNCHANGED <<wrapper, rwc, writer, readers>>
    /\ UNCHANGED <<op, newRWC, closeOld, startCount, reader, n, old>>
    /\ UNCHANGED <<calls, used, known, succ, lastNew, race, swapIn, resetBefore, quiet, begun, ended, startRWC, swaps>>

\* CloseUnderlying taking part in the reset detection: ErrRWCReset is returned
\* in place of the outcome of the close once the generation has moved.
CloseUnderlyingReportsReset(t) ==
    /\ pc[t] = "cl_close"
    /\ \E e \in CloseErrs :
         /\ err' = [err EXCEPT ![t] = e]
         /\ ret' = [ret EXCEPT ![t] = Result("Close", 0, IF count # 0 THEN ErrRWCReset ELSE e, Nil)]
    /\ closed' = [closed EXCEPT ![rwc] = TRUE]
    /\ target' = [target EXCEPT ![t] = rwc]
    /\ closedBy' = [closedBy EXCEPT ![t] = Append(@, rwc)]
    /\ pc' = [pc EXCEPT ![t] = "cl_ret"]
    /\ UNCHANGED <<wrapper, rwc, count, writer, readers>>
    /\ UNCHANGED <<op, newRWC, closeOld, startCount, reader, n, old>>
    /\ UNCHANGED <<calls, used, known, succ, lastNew, race, swapIn, resetBefore, quiet, begun, ended, startRWC, swaps>>

\* return r.rwc.Close(): the underlying Close runs under the shared lock and
\* its outcome is the value to return
CloseUnderlying(t) ==
    /\ pc[t] = "cl_close"
    /\ \E e \in CloseErrs :
         /\ err' = [err EXCEPT ![t] = e]
         /\ ret' = [ret EXCEPT ![t] = Result("Close", 0, e, Nil)]
    /\ closed' = [closed EXCEPT ![rwc] = TRUE]
    /\ target' = [target EXCEPT ![t] = rwc]
    /\ closedBy' = [closedBy EXCEPT ![t] = Append(@, rwc)]
    /\ pc' = [pc EXCEPT ![t] = "cl_ret"]
    /\ UNCHANGED <<wrapper, rwc, count, writer, readers>>
    /\ UNCHANGED <<op, newRWC, closeOld, startCount, reader, n, old>>
    /\ UNCHANGED <<calls, used, known, succ, lastNew, race, swapIn, resetBefore, quiet, begun, ended, startRWC, swaps>>

\* Close returning without the deferred r.mu.RUnlock().
CloseReturnKeepsLock(t) ==
    /\ pc[t] = "cl_ret"
    /\ readers' = readers
    /\ EndCall(t)
    /\ ended' = [ended EXCEPT ![t] = {}]
    /\ UNCHANGED <<writer, succ, lastNew>>

\* the deferred r.mu.RUnlock() runs and Close returns
CloseReturn(t) ==
    /\ pc[t] = "cl_ret"
    /\ readers' = readers \ {t}
    /\ EndCall(t)
    /\ ended' = [ended EXCEPT ![t] = {}]
    /\ UNCHANGED <<writer, succ, lastNew>>

\* ------------------------------------------------------------------ Reset
\* switch newRWC { case nil: return ErrResetNil; case r: return ErrEqualToSelf }
\* Past the switch the goroutine is in r.mu.Lock().  (Resources are
\* interchangeable: they are numbered in the order in which the wrapper is
\* handed them, see Fresh.)
CallReset(t, x, c) ==
    /\ BeginCall(t, "Reset")
    /\ known' = IF x \in Resources /\ x > known THEN x ELSE known
    /\ newRWC' = [newRWC EXCEPT ![t] = x]
    /\ closeOld' = [closeOld EXCEPT ![t] = c]
    /\ IF x = Nil
         THEN /\ ret' = [ret EXCEPT ![t] = Result("Reset", 0, ErrResetNil, Nil)]
              /\ pc' = [pc EXCEPT ![t] = "rs_rej"]
              /\ begun' = begun
         ELSE IF x = Self
         THEN /\ ret' = [ret EXCEPT ![t] = Result("Reset", 0, ErrEqualToSelf, Nil)]
              /\ pc' = [pc EXCEPT ![t] = "rs_rej"]
              /\ begun' = begun
         ELSE /\ ret' = ret
              /\ pc' = [pc EXCEPT ![t] = "rs_lock"]
              /\ begun' = [u \in Threads |-> begun[u] \cup Phase(u)]
    /\ UNCHANGED <<startCount, quiet, startRWC>>

\* ResetRejected with the switch placed after r.mu.Lock(): the rejection is
\* returned once the exclusive lock could be taken.
ResetRejectedWaitsForLock(t) ==
    /\ pc[t] = "rs_rej"
    /\ CanLock
    /\ EndCall(t)
    /\ ended' = [ended EXCEPT ![t] = {}]
    /\ UNCHANGED <<writer, readers, succ, lastNew>>

\* return ErrResetNil / return ErrEqualToSelf: no lock was taken
ResetRejected(t) ==
    /\ pc[t] = "rs_rej"
    /\ EndCall(t)
    /\ ended' = [ended EXCEPT ![t] = {}]
    /\ UNCHANGED <<writer, readers, succ, lastNew>>

\* ResetLock excluding other Resets only: it does not wait for the holders of
\* the shared lock.
ResetLockIgnoresReaders(t) ==
    /\ pc[t] = "rs_lock"
    /\ writer = NoThread
    /\ writer' = t
    /\ pc' = [pc EXCEPT ![t] = "rs_swap"]
    /\ UNCHANGED <<wrapper, rwc, count, readers, closed>>
    /\ UNCHANGED locals
    /\ UNCHANGED ghosts

\* r.mu.Lock(); defer r.mu.Unlock()
ResetLock(t) ==
    /\ pc[t] = "rs_lock"
    /\ CanLock
    /\ writer' = t
    /\ pc' = [pc EXCEPT ![t] = "rs_swap"]
    /\ UNCHANGED <<wrapper, rwc, count, readers, closed>>
    /\ UNCHANGED locals
    /\ UNCHANGED ghosts

\* ResetSwap without the comparison r.rwc == newRWC.
ResetSwapUnchecked(t) ==
    /\ pc[t] = "rs_swap"
    /\ old' = [old EXCEPT ![t] = rwc]
    /\ rwc' = newRWC[t]
    /\ swapIn' = [u \in Threads |-> swapIn[u] \/ InWindow(u)]
    /\ swaps' = swaps + 1
    /\ pc' = [pc EXCEPT ![t] = "rs_add"]
    /\ ret' = ret
    /\ UNCHANGED <<wrapper, count, writer, readers, closed>>
    /\ UNCHANGED <<op, newRWC, closeOld, startCount, reader, n, err>>
    /\ UNCHANGED <<calls, used, known, succ, lastNew, race, resetBefore, quiet, begun, ended, target, closedBy, startRWC>>

\* if r.rwc == newRWC { return ErrEqual }; old := r.rwc; r.rwc = newRWC
ResetSwap(t) ==
    /\ pc[t] = "rs_swap"
    /\ IF rwc = newRWC[t]
         THEN /\ ret' = [ret EXCEPT ![t] = Result("Reset", 0, ErrEqual, Nil)]
              /\ pc' = [pc EXCEPT ![t] = "rs_ret"]
              /\ UNCHANGED <<rwc, old, swapIn, swaps>>
         ELSE /\ old' = [old EXCEPT ![t] = rwc]
              /\ rwc' = newRWC[t]
              /\ swapIn' = [u \in Threads |-> swapIn[u] \/ InWindow(u)]
              /\ swaps' = swaps + 1
              /\ pc' = [pc EXCEPT ![t] = "rs_add"]
              /\ ret' = ret
    /\ UNCHANGED <<wrapper, count, writer, readers, closed>>
    /\ UNCHANGED <<op, newRWC, closeOld, startCount, reader, n, err>>
    /\ UNCHANGED <<calls, used, known, succ, lastNew, race, resetBefore, quiet, begun, ended, target, closedBy, startRWC>>

\* ResetAdd as r.count.Store(1) instead of r.count.Add(1).
ResetAddStoresOne(t) ==
    /\ pc[t] = "rs_add"
    /\ count' = 1
    /\ race' = [u \in Threads |-> race[u] \cup Phase(u)]
    /\ IF closeOld[t]
         THEN /\ pc' = [pc EXCEPT ![t] = "rs_close"]
              /\ ret' = ret
         ELSE /\ pc' = [pc EXCEPT ![t] = "rs_ret"]
              /\ ret' = [ret EXCEPT ![t] = Result("Reset", 0, OK, Nil)]
    /\ UNCHANGED <<wrapper, rwc, writer, readers, closed>>
    /\ UNCHANGED <<op, newRWC, closeOld, startCount, reader, n, err, old>>
    /\ UNCHANGED <<calls, used, known, succ, lastNew, swapIn, resetBefore, quiet, begun, ended, target, closedBy, startRWC, swaps>>

\* r.count.Add(1).  r.count is an atomic.Uint64; it wraps only after 2^64
\* commits, which no behaviour of at most MaxCalls calls reaches.  With
\* closeOld false the next statement is return nil.
ResetAdd(t) ==
    /\ pc[t] = "rs_add"
    /\ count' = count + 1
    /\ race' = [u \in Threads |-> race[u] \cup Phase(u)]
    /\ IF closeOld[t]
         THEN /\ pc' = [pc EXCEPT ![t] = "rs_close"]
              /\ ret' = ret
         ELSE /\ pc' = [pc EXCEPT ![t] = "rs_ret"]
              /\ ret' = [ret EXCEPT ![t] = Result("Reset", 0, OK, Nil)]
    /\ UNCHANGED <<wrapper, rwc, writer, readers, closed>>
    /\ UNCHANGED <<op, newRWC, closeOld, startCount, reader, n, err, old>>
    /\ UNCHANGED <<calls, used, known, succ, lastNew, swapIn, resetBefore, quiet, begun, ended, target, closedBy, startRWC, swaps>>

\* ResetCloseOld closing r.rwc (the new resource) instead of old.
ResetCloseOldClosesNew(t) ==
    /\ pc[t] = "rs_close"
    /\ \E e \in CloseErrs : err' = [err EXCEPT ![t] = e]
    /\ closed' = [closed EXCEPT ![rwc] = TRUE]
    /\ closedBy' = [closedBy EXCEPT ![t] = Append(@, rwc)]
    /\ ret' = [ret EXCEPT ![t] = Result("Reset", 0, OK, Nil)]
    /\ pc' = [pc EXCEPT ![t] = "rs_ret"]
    /\ UNCHANGED <<wrapper, rwc, count, writer, readers>>
    /\ UNCHANGED <<op, newRWC, closeOld, startCount, reader, n, old>>
    /\ UNCHANGED <<calls, used, known, succ, lastNew, race, swapIn, resetBefore, quiet, begun, ended, target, startRWC, swaps>>

\* ResetCloseOld with r.mu.Unlock() called before old.Close() instead of
\* being deferred.
ResetCloseOldUnlocked(t) ==
    /\ pc[t] = "rs_close"
    /\ writer' = NoThread
    /\ \E e \in CloseErrs : err' = [err EXCEPT ![t] = e]
    /\ closed' = [closed EXCEPT ![old[t]] = TRUE]
    /\ closedBy' = [closedBy EXCEPT ![t] = Append(@, old[t])]
    /\ ret' = [ret EXCEPT ![t] = Result("Reset", 0, OK, Nil)]
    /\ pc' = [pc EXCEPT ![t] = "rs_ret"]
    /\ UNCHANGED <<wrapper, rwc, count, readers>>
    /\ UNCHANGED <<op, newRWC, closeOld, startCount, reader, n, old>>
    /\ UNCHANGED <<calls, used, known, succ, lastNew, race, swapIn, resetBefore, quiet, begun, ended, target, startRWC, swaps>>

\* ResetCloseOld as `return old.Close()`: the outcome of the close is returned.
ResetCloseOldReturnsErr(t) ==
    /\ pc[t] = "rs_close"
    /\ \E e \in CloseErrs :
         /\ err' = [err EXCEPT ![t] = e]
         /\ ret' = [ret EXCEPT ![t] = Result("Reset", 0, e, Nil)]
    /\ closed' = [closed EXCEPT ![old[t]] = TRUE]
    /\ closedBy' = [closedBy EXCEPT ![t] = Append(@, old[t])]
    /\ pc' = [pc EXCEPT ![t] = "rs_ret"]
    /\ UNCHANGED <<wrapper, rwc, count, writer, readers>>
    /\ UNCHANGED <<op, newRWC, closeOld, startCount, reader, n, old>>
    /\ UNCHANGED <<calls, used, known, succ, lastNew, race, swapIn, resetBefore, quiet, begun, ended, target, startRWC, swaps>>

\* if closeOld { _ = old.Close() }; return nil: the outcome of the close is
\* dropped, whatever it is
ResetCloseOld(t) ==
    /\ pc[t] = "rs_close"
    /\ \E e \in CloseErrs : err' = [err EXCEPT ![t] = e]
    /\ closed' = [closed EXCEPT ![old[t]] = TRUE]
    /\ closedBy' = [closedBy EXCEPT ![t] = Append(@, old[t])]
    /\ ret' = [ret EXCEPT ![t] = Result("Reset", 0, OK, Nil)]
    /\ pc' = [pc EXCEPT ![t] = "rs_ret"]
    /\ UNCHANGED <<wrapper, rwc, count, writer, readers>>
    /\ UNCHANGED <<op, newRWC, closeOld, startCount, reader, n, old>>
    /\ UNCHANGED <<calls, used, known, succ, lastNew, race, swapIn, resetBefore, quiet, begun, ended, target, startRWC, swaps>>

\* the deferred r.mu.Unlock() runs and Reset returns (ErrEqual or nil)
ResetReturn(t) ==
    /\ pc[t] = "rs_ret"
    /\ writer' = NoThread
    /\ succ' = IF ret[t].err = OK THEN succ + 1 ELSE succ
    /\ lastNew' = IF ret[t].err = OK THEN newRWC[t] ELSE lastNew
    /\ ended' = [u \in Threads |->
                   IF u = t THEN {}
                   ELSE IF ret[t].err = OK THEN ended[u] \cup Phase(u) ELSE ended[u]]
    /\ EndCall(t)
    /\ UNCHANGED readers


\* ------------------------------------------------------------- ResetCount
\* return r.count.Load(): no lock is taken
ResetCount(t) ==
    /\ BeginCall(t, "ResetCount")
    /\ ret' = [ret EXCEPT ![t] = Result("ResetCount", count, NoErr, Nil)]
    /\ pc' = [pc EXCEPT ![t] = "rc_ret"]
    /\ quiet' = [quiet EXCEPT ![t] = ~ResetRunning]
    /\ UNCHANGED <<newRWC, closeOld, startCount, begun, known, startRWC>>

ResetCountReturn(t) ==
    /\ pc[t] = "rc_ret"
    /\ EndCall(t)
    /\ ended' = [ended EXCEPT ![t] = {}]
    /\ UNCHANGED <<writer, readers, succ, lastNew>>

\* -------------------------------------------------------------------- RWC
CallRWC(t) ==
    /\ BeginCall(t, "RWC")
    /\ pc' = [pc EXCEPT ![t] = "rwc_rlock"]
    /\ UNCHANGED <<newRWC, closeOld, startCount, ret, quiet, begun, known, startRWC>>

\* r.mu.RLock(); defer r.mu.RUnlock(); return r.rwc
RWCRLock(t) ==
    /\ pc[t] = "rwc_rlock"
    /\ CanRLock
    /\ readers' = readers \cup {t}
    /\ ret' = [ret EXCEPT ![t] = Result("RWC", 0, NoErr, rwc)]
    /\ pc' = [pc EXCEPT ![t] = "rwc_ret"]
    /\ UNCHANGED <<wrapper, rwc, count, writer, closed>>
    /\ UNCHANGED <<op, newRWC, closeOld, startCount, reader, n, err, old>>
    /\ UNCHANGED ghosts

\* the deferred r.mu.RUnlock() runs and RWC returns
RWCReturn(t) ==
    /\ pc[t] = "rwc_ret"
    /\ readers' = readers \ {t}
    /\ EndCall(t)
    /\ ended' = [ended EXCEPT ![t] = {}]
    /\ UNCHANGED <<writer, succ, lastNew>>

\* ---------------------------------------------------------- specification
\* a step of goroutine t inside a call
Step(t) ==
    \/ RWRLock(t)
    \/ RWSnapshot(t)
    \/ RWPreCheck(t)
    \/ RWUnderlying(t)
    \/ RWPostCheck(t)
    \/ RWReturn(t)
    \/ CloseRLock(t)
    \/ CloseUnderlying(t)
    \/ CloseReturn(t)
    \/ ResetRejected(t)
    \/ ResetLock(t)
    \/ ResetSwap(t)
    \/ ResetAdd(t)
    \/ ResetCloseOld(t)
    \/ ResetReturn(t)
    \/ ResetCountReturn(t)
    \/ RWCRLock(t)
    \/ RWCReturn(t)

\* the resources a caller can pass: those the wrapper has seen and one more
Fresh == {x \in Resources : x <= known + 1}

\* goroutine t calls a method of the wrapper
Call(t) ==
    \/ CallRead(t)
    \/ CallWrite(t)
    \/ CallClose(t)
    \/ \E x \in Fresh \cup {Nil, Self}, c \in BOOLEAN : CallReset(t, x, c)
    \/ ResetCount(t)
    \/ CallRWC(t)

Next ==
    \/ \E x \in Fresh \cup {Nil} : NewResReadWriteCloser(x)
    \/ \E t \in Threads : Call(t)
    \/ \E t \in Threads : Step(t)

Spec == Init /\ [][Next]_vars

\* Every goroutine inside a call keeps being scheduled, and every underlying
\* read, write and close returns.
FairSpec == Spec /\ \A t \in Threads : WF_vars(Step(t))

TypeOK ==
    /\ wrapper \in {"none", "live", "panicked"}
    /\ rwc \in Resources \cup {Nil}
    /\ count \in 0..MaxCalls
    /\ writer \in Threads \cup {NoThread}
    /\ readers \subseteq Threads


\* ================================================================ claims
\* the phases between a Read/Write's snapshot of r.count and its final check
Window == {"pre", "io", "post"}
\* t's Read/Write has made its last check and holds the pair it returns
RWResult(t) == pc[t] = "rw_ret"
\* a Reset has assigned r.rwc, replacing the resource t snapshotted, and has not
\* yet incremented r.count
SwapPending(t) == \E u \in Threads : pc[u] = "rs_add" /\ old[u] = reader[t]

\* C1 (as stated): a Read/Write that does not return ErrRWCReset saw no Reset
\* commit in its window, and the resource it invoked was the installed one
\* (r.rwc) during the whole window.
C1_Original ==
    \A t \in Threads :
        RWResult(t) /\ ret[t].err # ErrRWCReset
            => race[t] \cap Window = {} /\ ~swapIn[t]

\* C1 (amended): a Read/Write that does not return ErrRWCReset saw no Reset
\* increment the generation between its snapshot of the generation and its
\* final check, and it invoked the resource it snapshotted; r.rwc was assigned
\* inside that window only by a Reset that incremented the generation after
\* the final check (or has not yet), and otherwise still holds that resource.
C1_NoCommitInWindow ==
    \A t \in Threads :
        RWResult(t) /\ ret[t].err # ErrRWCReset
            => /\ race[t] \cap Window = {}
               /\ target[t] = reader[t]
               /\ reader[t] \in Resources
               /\ swapIn[t] => SwapPending(t) \/ "ret" \in race[t]
               /\ (~swapIn[t] /\ "ret" \notin race[t] /\ \A u \in Threads : pc[u] # "rs_add")
                      => rwc = reader[t]

C1_Witness ==
    \E t \in Threads :
        /\ RWResult(t) /\ ret[t].err = OK
        /\ swapIn[t] /\ SwapPending(t) /\ rwc # reader[t]

\* C2: a Reset that commits after the pre-check of a Read/Write and before its
\* post-call check makes the call return ErrRWCReset with exactly the byte
\* count of the underlying call, whatever that call's own outcome was.
C2_ResetKeepsByteCount ==
    \A t \in Threads :
        RWResult(t) /\ target[t] # Nil /\ race[t] \cap {"io", "post"} # {}
            => ret[t] = Result(op[t], n[t], ErrRWCReset, Nil)

C2_Witness ==
    \E t \in Threads :
        /\ RWResult(t) /\ "io" \in race[t]
        /\ n[t] = MaxN /\ err[t] = "EOF"
        /\ ret[t] = Result("Read", MaxN, ErrRWCReset, Nil)

\* C3: a Read/Write during which no Reset commits returns exactly the pair the
\* underlying call on the snapshotted (installed) resource returned, error
\* outcomes included.
C3_PassThrough ==
    \A t \in Threads :
        RWResult(t) /\ race[t] = {}
            => /\ target[t] = reader[t] /\ reader[t] \in Resources
               /\ ret[t] = Result(op[t], n[t], err[t], Nil)
               /\ <<n[t], err[t]>> \in (0..MaxN) \X UnderlyingErrs(op[t]) \cup {<<0, ErrClosedPipe>>}
               /\ (~swapIn[t] /\ \A u \in Threads : pc[u] # "rs_add") => rwc = target[t]

C3_Witness ==
    \E t \in Threads :
        /\ RWResult(t) /\ race[t] = {} /\ op[t] = "Write"
        /\ ret[t] = Result("Write", 0, ErrClosedPipe, Nil)
        /\ rwc = target[t] /\ count = 0

\* C4 (as stated): a Read/Write that begins after a successful Reset returned
\* observes ErrRWCReset with 0 bytes.
C4_Original ==
    \A t \in Threads :
        RWResult(t) /\ resetBefore[t] => ret[t].n = 0 /\ ret[t].err = ErrRWCReset

\* C4 (amended): a Reset that increments the generation after a Read/Write took
\* its snapshot of the generation and before its pre-check makes that call
\* return (0, ErrRWCReset); a Reset that returned before the call began is not
\* reported by it.
C4_ResetBeforeUnderlyingCall ==
    \A t \in Threads :
        RWResult(t)
            => /\ "pre" \in race[t] => ret[t] = Result(op[t], 0, ErrRWCReset, Nil)
               /\ (resetBefore[t] /\ race[t] = {}) => ret[t].err # ErrRWCReset

C4_Witness ==
    \E t \in Threads :
        /\ RWResult(t) /\ race[t] = {"pre"}
        /\ ret[t] = Result(op[t], 0, ErrRWCReset, Nil)

\* C5 (as stated): a Reset that occurs wholly after the underlying call of a
\* Read/Write returned leaves the result of that Read/Write unaffected.
C5_Original ==
    \A t \in Threads :
        RWResult(t) /\ quiet[t] /\ begun[t] = {"post"} /\ race[t] = {"post"} /\ ended[t] = {"post"}
            => ret[t] = Result(op[t], n[t], err[t], Nil)

\* C5 (amended): a Reset that increments the generation after the post-call
\* check of a Read/Write leaves its result unaffected; one that increments it
\* after the underlying call returned and before that check is reported as
\* ErrRWCReset, with the byte count of the underlying call.
C5_ResetAfterFinalCheck ==
    \A t \in Threads :
        RWResult(t)
            => /\ race[t] = {"ret"} => ret[t] = Result(op[t], n[t], err[t], Nil)
               /\ "post" \in race[t] => ret[t] = Result(op[t], n[t], ErrRWCReset, Nil)

C5_Witness ==
    \E t \in Threads :
        /\ RWResult(t) /\ race[t] = {"ret"} /\ begun[t] = {"post"}
        /\ ret[t] = Result(op[t], n[t], err[t], Nil) /\ n[t] = MaxN


\* t's Reset is returning a rejection
RejectedReset(t) == pc[t] = "rs_rej" \/ (pc[t] = "rs_ret" /\ ret[t].err = ErrEqual)

C6_Rejections ==
    \A t \in Threads :
        /\ pc[t] = "rs_rej"
              => \/ newRWC[t] = Nil /\ ret[t].err = ErrResetNil
                 \/ newRWC[t] = Self /\ ret[t].err = ErrEqualToSelf
        /\ (op[t] = "Reset" /\ newRWC[t] \in {Nil, Self}) => pc[t] = "rs_rej"
        /\ (pc[t] = "rs_ret" /\ ret[t].err = ErrEqual) => rwc = newRWC[t]
        /\ RejectedReset(t) => closedBy[t] = <<>> /\ old[t] = Nil

C6_RejectionSteps ==
    \A t \in Threads :
        /\ (pc[t] = "rs_swap" /\ pc'[t] # "rs_swap" /\ rwc = newRWC[t])
              => pc'[t] = "rs_ret" /\ ret'[t].err = ErrEqual
        /\ ((RejectedReset(t) \/ RejectedReset(t)') /\ pc'[t] # pc[t])
              => rwc' = rwc /\ count' = count /\ closed' = closed

\* C6: Reset(nil) returns ErrResetNil, Reset(the wrapper) ErrEqualToSelf and
\* Reset(the installed resource) ErrEqual, for either closeOld; a rejected
\* Reset changes neither r.rwc nor r.count and closes no resource.
C6_RejectedResetChangesNothing == []C6_Rejections /\ [][C6_RejectionSteps]_vars

C6_Witness ==
    \E t \in Threads :
        /\ pc[t] = "rs_ret" /\ ret[t].err = ErrEqual /\ closeOld[t]
        /\ count = 1 /\ rwc = newRWC[t] /\ \A x \in Resources : ~closed[x]

\* a Reset that has incremented r.count and has not returned yet
Committed(u) == pc[u] = "rs_close" \/ (pc[u] = "rs_ret" /\ ret[u].err = OK)

C7_Count ==
    /\ count = succ + Cardinality({u \in Threads : Committed(u)})
    /\ \A t \in Threads :
          pc[t] = "rc_ret"
              => /\ ret[t].n <= count
                 /\ (quiet[t] /\ race[t] = {}) => ret[t].n = succ

C7_CountSteps ==
    /\ count' = count \/ count' = count + 1
    /\ count' # count => \E t \in Threads : pc[t] = "rs_add" /\ Committed(t)'
    /\ succ' # succ => \E t \in Threads : Committed(t) /\ pc'[t] = "idle" /\ succ' = succ + 1
    /\ \A t \in Threads : (RejectedReset(t) /\ pc'[t] = "idle") => count' = count /\ succ' = succ

\* C7: the generation starts at 0, never decreases and grows by exactly 1 for
\* each Reset that returns nil; with no Reset executing it equals the number
\* of Resets that returned nil, which is what ResetCount then returns;
\* rejected Resets leave it alone.
C7_GenerationCountsResets == (count = 0) /\ []C7_Count /\ [][C7_CountSteps]_vars

C7_Witness ==
    \E t \in Threads :
        pc[t] = "rc_ret" /\ quiet[t] /\ race[t] = {} /\ ret[t].n = 1 /\ succ = 1

\* C8: after construction the installed resource is never nil and never the
\* wrapper; construction with nil panics and leaves no wrapper to call; Read,
\* Write, Close and RWC operate on, and return, a resource.
C8_ResourceNeverNil ==
    /\ wrapper = "live" => rwc \in Resources
    /\ wrapper # "live" => calls = 0 /\ rwc = Nil /\ \A t \in Threads : pc[t] = "idle"
    /\ \A t \in Threads :
          /\ pc[t] \in {"rw_pre", "rw_io", "rw_post"} => reader[t] \in Resources
          /\ target[t] # Nil => target[t] \in Resources
          /\ pc[t] = "rwc_ret" => ret[t].res \in Resources
          /\ pc[t] \in {"rs_add", "rs_close"} => old[t] \in Resources

C8_Witness ==
    \E t \in Threads :
        pc[t] = "rs_rej" /\ newRWC[t] = Self /\ count = 1 /\ rwc \in Resources

\* C9: with every goroutine inside a call scheduled again and again and every
\* underlying call returning, every call on the wrapper returns.
C9_EveryCallReturns == \A t \in Threads : (pc[t] # "idle") ~> (pc[t] = "idle")

C9_Witness ==
    \E t, u \in Threads :
        pc[t] = "rs_lock" /\ u \in readers /\ pc[u] = "cl_close"

\* C10: a Reset that returns nil has invoked Close on the replaced resource
\* exactly once if closeOld and not at all otherwise, never on the resource it
\* installed; a Read, Write or Close that begins after it returned (no other
\* Reset executing) operates on the resource it installed.
C10_CloseOldOnly ==
    \A t \in Threads :
        /\ (pc[t] = "rs_ret" /\ ret[t].err = OK)
              => /\ closedBy[t] = IF closeOld[t] THEN <<old[t]>> ELSE <<>>
                 /\ old[t] # newRWC[t]
                 /\ rwc = newRWC[t]
        /\ op[t] = "Reset" => \A i \in DOMAIN closedBy[t] : closedBy[t][i] # newRWC[t]
        /\ (op[t] \in {"Read", "Write", "Close"} /\ resetBefore[t] /\ quiet[t]
               /\ begun[t] = {} /\ target[t] # Nil)
              => target[t] = lastNew

C10_Witness ==
    \E t \in Threads :
        /\ op[t] = "Write" /\ resetBefore[t] /\ quiet[t] /\ begun[t] = {}
        /\ target[t] = lastNew /\ pc[t] = "rw_ret" /\ ret[t].err = OK
        /\ \E x \in Resources : x # lastNew /\ closed[x]


\* the goroutines inside the critical section of Reset (r.mu.Lock() returned)
InCritical == {u \in Threads : pc[u] \in {"rs_swap", "rs_add", "rs_close", "rs_ret"}}
\* t's Close holds the shared lock: before, during and after r.rwc.Close()
Closing(t) == pc[t] \in {"cl_close", "cl_ret"}

C11_UnderSharedLock ==
    \A t \in Threads :
        /\ Closing(t) => t \in readers /\ writer = NoThread /\ InCritical = {}
        /\ pc[t] = "cl_ret" => target[t] = rwc /\ closedBy[t] = <<rwc>> /\ closed[rwc]

C11_NoSwapWhileClosing ==
    \A t \in Threads : (Closing(t) /\ Closing(t)') => rwc' = rwc

\* C11: from the moment Close holds the shared lock until it returns, no Reset
\* is inside its critical section and r.rwc does not change, so the resource
\* Close invoked Close on is the installed one when the underlying close
\* returns; the shared lock admits several Close calls at once.
C11_CloseOnInstalled == []C11_UnderSharedLock /\ [][C11_NoSwapWhileClosing]_vars

C11_Witness ==
    \E t, u \in Threads :
        /\ t # u /\ {t, u} \subseteq readers
        /\ pc[t] = "cl_ret" /\ pc[u] = "cl_close" /\ target[t] = rwc

C12_CloseOutcome ==
    \A t \in Threads :
        pc[t] = "cl_ret"
            => /\ ret[t] = Result("Close", 0, err[t], Nil)
               /\ err[t] \in CloseErrs
               /\ ret[t].err # ErrRWCReset

C12_CloseSteps ==
    \A t \in Threads :
        /\ ((op[t] = "Close" \/ op'[t] = "Close") /\ pc'[t] # pc[t])
              => rwc' = rwc /\ count' = count
        /\ (pc[t] = "rs_swap" /\ pc'[t] # pc[t] /\ rwc # newRWC[t])
              => pc'[t] = "rs_add" /\ rwc' = newRWC[t]

\* C12: Close returns exactly the outcome of the underlying close, never
\* ErrRWCReset, whether or not a Reset committed around it; no step of Close
\* changes r.rwc or r.count; a Reset with a resource other than the installed
\* one goes on to the swap whether or not the installed resource was closed.
C12_CloseSurfacesOutcome == []C12_CloseOutcome /\ [][C12_CloseSteps]_vars

C12_Witness ==
    \E t \in Threads :
        /\ pc[t] = "cl_ret" /\ ret[t].err = "ErrClose"
        /\ race[t] = {"close"} /\ count = 1 /\ target[t] = rwc

\* t is executing Read or Write
InRW(t) == op[t] \in {"Read", "Write"}

\* C13: the resource on which a Read/Write invokes the underlying read/write is
\* the one it snapshotted under the shared lock, which is the one r.rwc held
\* when the call loaded startCount; no Reset incremented the generation
\* between that load and the invocation; the byte count the call returns,
\* with ErrRWCReset too, is the one that underlying call returned.
C13_IOOnStartResource ==
    \A t \in Threads :
        (InRW(t) /\ target[t] # Nil)
            => /\ target[t] = reader[t]
               /\ target[t] = startRWC[t]
               /\ "pre" \notin race[t]
               /\ pc[t] = "rw_ret" => ret[t].n = n[t]

C13_Witness ==
    \E t \in Threads :
        /\ pc[t] = "rw_ret" /\ ret[t] = Result("Write", MaxN, ErrRWCReset, Nil)
        /\ target[t] = startRWC[t] /\ rwc # target[t] /\ count = startCount[t] + 1

\* C14: a Read/Write between whose load of startCount and whose pre-check a
\* Reset incremented the generation goes from the pre-check straight to its
\* return with (0, ErrRWCReset): it has invoked read/write on no resource.
C14_PreCheckStopsCall ==
    \A t \in Threads :
        (InRW(t) /\ "pre" \in race[t] /\ pc[t] \notin {"rw_rlock", "rw_runlock", "rw_pre"})
            => /\ pc[t] = "rw_ret"
               /\ ret[t] = Result(op[t], 0, ErrRWCReset, Nil)
               /\ target[t] = Nil /\ n[t] = 0 /\ err[t] = NoErr

C14_Witness ==
    \E t \in Threads :
        /\ pc[t] = "rw_ret" /\ "pre" \in race[t] /\ target[t] = Nil
        /\ reader[t] = rwc /\ reader[t] # startRWC[t] /\ ~closed[startRWC[t]]

\* C15: from the pre-check to the return of a Read/Write, the underlying call
\* included, the goroutine holds r.mu in neither mode; only snapshots, Close
\* and RWC hold the shared lock, so a Reset waiting for the lock while every
\* other goroutine is idle or inside its underlying read/write can take it.
C15_NoLockDuringIO ==
    /\ \A t \in Threads :
          pc[t] \in {"rw_pre", "rw_io", "rw_post", "rw_ret"} => t \notin readers /\ writer # t
    /\ \A t \in readers : pc[t] \in {"rw_runlock", "cl_close", "cl_ret", "rwc_ret"}
    /\ \A t \in Threads :
          (pc[t] = "rs_lock" /\ \A u \in Threads \ {t} : pc[u] \in {"idle", "rw_io"}) => CanLock

C15_Witness ==
    \E t \in Threads :
        /\ pc[t] = "rw_io" /\ begun[t] = {"io"} /\ race[t] = {"io"} /\ ended[t] = {"io"}
        /\ rwc # reader[t] /\ \A u \in Threads \ {t} : pc[u] = "idle"

\* C16 (as stated): the exclusive lock has been released when a Reset invokes
\* Close on the old resource.
C16_Original ==
    \A t \in Threads : pc[t] = "rs_close" => writer # t

\* C16 (amended): a successful Reset with closeOld installs the new resource,
\* increments the generation, invokes Close on the old resource and only then
\* releases the exclusive lock: the lock is held while that close executes
\* and until Reset returns, and no other goroutine can take r.mu meanwhile.
C16_CloseOldUnderLock ==
    \A t \in Threads :
        /\ pc[t] = "rs_close"
              => /\ writer = t /\ closeOld[t] /\ closedBy[t] = <<>>
                 /\ rwc = newRWC[t] /\ count = swaps /\ count >= 1
                 /\ ~CanRLock /\ ~CanLock
        /\ (pc[t] = "rs_ret" /\ closedBy[t] # <<>>)
              => /\ writer = t /\ closedBy[t] = <<old[t]>>
                 /\ ~CanRLock /\ ~CanLock

C16_Witness ==
    \E t, u \in Threads :
        /\ pc[t] = "rs_ret" /\ closedBy[t] = <<old[t]>> /\ writer = t
        /\ pc[u] = "cl_rlock"

\* C17: a Reset that went past the comparison with the installed resource
\* returns nil with the new resource installed and the generation incremented,
\* whatever old.Close() returned.
C17_CloseErrorIgnored ==
    \A t \in Threads :
        (pc[t] = "rs_ret" /\ old[t] # Nil)
            => /\ ret[t] = Result("Reset", 0, OK, Nil)
               /\ rwc = newRWC[t] /\ rwc # old[t]
               /\ count = swaps /\ count >= 1
               /\ closedBy[t] # <<>> => err[t] \in CloseErrs

C17_Witness ==
    \E t \in Threads :
        /\ pc[t] = "rs_ret" /\ err[t] = "ErrClose" /\ closed[old[t]]
        /\ ret[t].err = OK /\ rwc = newRWC[t] /\ count = 1

C18_NoLockForRejection ==
    \A t \in Threads :
        /\ (op[t] = "Reset" /\ newRWC[t] \in {Nil, Self}) => pc[t] = "rs_rej"
        /\ pc[t] = "rs_rej"
              => /\ t \notin readers /\ writer # t
                 /\ ret[t].err = (IF newRWC[t] = Nil THEN ErrResetNil ELSE ErrEqualToSelf)
                 /\ ENABLED ResetRejected(t)

C18_RejectionSteps ==
    \A t \in Threads :
        ((pc[t] = "rs_rej" \/ pc'[t] = "rs_rej") /\ pc'[t] # pc[t])
            => writer' = writer /\ readers' = readers

\* C18: Reset(nil) and Reset(the wrapper) go from the call to the return of
\* their error without touching r.mu: they never wait for the lock, never
\* hold it, and their return is possible whoever holds r.mu in either mode.
C18_RejectedBeforeLock == []C18_NoLockForRejection /\ [][C18_RejectionSteps]_vars

C18_Witness ==
    \E t, u \in Threads :
        /\ pc[t] = "rs_rej" /\ ret[t].err = ErrEqualToSelf
        /\ writer = u /\ pc[u] = "rs_add"

\* C19: at most one Reset is between r.mu.Lock() and its return, and it is the
\* holder of the exclusive lock; r.rwc has been assigned once more than
\* r.count was incremented exactly while a Reset is between the two
\* statements; whenever a goroutine holds the shared lock no Reset is in its
\* critical section and the generation equals the number of assignments.
C19_SwapAndCountAtomic ==
    /\ Cardinality(InCritical) <= 1
    /\ InCritical = (IF writer = NoThread THEN {} ELSE {writer})
    /\ swaps = count + Cardinality({u \in Threads : pc[u] = "rs_add"})
    /\ readers # {} => writer = NoThread /\ InCritical = {} /\ count = swaps

C19_Witness ==
    \E t \in readers :
        /\ pc[t] = "rw_runlock" /\ startCount[t] = 0 /\ startRWC[t] # rwc
        /\ count = 1 /\ swaps = 1

\* a step of a Reset that assigns r.rwc or increments r.count
ResetCommitStep(t) ==
    \/ pc[t] = "rs_swap" /\ pc'[t] = "rs_add" /\ rwc' = newRWC[t] /\ count' = count
    \/ pc[t] = "rs_add" /\ Committed(t)' /\ rwc' = rwc /\ count' = count + 1

C20_FrameSteps ==
    /\ (wrapper = "live" /\ <<rwc, count>>' # <<rwc, count>>)
          => \E t \in Threads : op[t] = "Reset" /\ ResetCommitStep(t)
    /\ \A t \in Threads :
          ((op[t] \in {"Read", "Write", "Close", "ResetCount", "RWC"}
               \/ op'[t] \in {"Read", "Write", "Close", "ResetCount", "RWC"}
               \/ RejectedReset(t) \/ RejectedReset(t)')
             /\ pc'[t] # pc[t])
              => <<rwc, count>>' = <<rwc, count>>

C20_ResetCountLockFree ==
    \A t \in Threads :
        pc[t] = "rc_ret" => t \notin readers /\ writer # t /\ ENABLED ResetCountReturn(t)

\* C20: r.rwc and r.count change only in the two statements of a Reset that
\* goes on to return nil; no step of Read, Write, Close, ResetCount, RWC or of
\* a rejected Reset changes either; ResetCount takes no lock and can return
\* whoever holds r.mu.
C20_OnlyResetChangesState == []C20_ResetCountLockFree /\ [][C20_FrameSteps]_vars

C20_Witness ==
    \E t, u \in Threads :
        /\ pc[t] = "rc_ret" /\ ret[t].n = 0
        /\ writer = u /\ pc[u] = "rs_add" /\ swaps = 1

====
